---- MODULE Spec2Model ----
(***************************************************************************)
(* Cart / order pricing and status lifecycle of the shop backend.          *)
(*                                                                         *)
(* Money is counted in thousandths of a dollar (20.00 is 20000), so that   *)
(* the 8.5% tax and the percentage coupons stay integers.                  *)
(* The persistence layer is the state: `cart` is the stored Cart document  *)
(* of the customer, `products` the Product collection, `orders` the Order  *)
(* collection.  A route handler is one action (find, method, save).        *)
(***************************************************************************)
EXTENDS Integers, Sequences, FiniteSets, TLC

VARIABLES
    products,   \* Product collection: id -> [price, stock, isActive, variants]
    cart,       \* stored Cart document of the customer, or NoCart
    doc,        \* the Cart document instance the last cart handler worked on
                \* (after the model method, before save), or NoDoc
    last,       \* the last request: operation, inputs, HTTP status
    orders,     \* Order collection: _id -> order document
    nextOrderId,\* next _id the store hands out
    today,      \* index of the current calendar day in Dates
    faults,     \* what fails around the handlers: the mail transport, a
                \* product save
    inflight,   \* requests that have read the store and not yet written:
                \* request id -> what the handler holds in memory
    paymentMethods  \* user.paymentMethods of the customer

vars ==
    <<products, cart, doc, last, orders, nextOrderId, today, faults,
      inflight, paymentMethods>>
cartVars == <<cart, doc>>
orderVars == <<orders, nextOrderId, today>>
otherVars == <<faults, inflight, paymentMethods>>

----------------------------------------------------------------------------
(* Bounds of the model *)

MaxQty == 3
MaxItems == 2

(* Program constants *)

TaxPerMille == 85
FreeShippingAbove == 50000 + 1
FreeShippingFrom == 50000
ShippingFee == 5990
MaxPerItem == 10

----------------------------------------------------------------------------
(* Helpers *)

Min(a, b) == IF a < b THEN a ELSE b
Max(a, b) == IF a > b THEN a ELSE b

RECURSIVE SumSeq(_)
SumSeq(s) == IF s = <<>> THEN 0 ELSE Head(s) + SumSeq(Tail(s))

\* items.filter(item => item._id !== itemId)
RECURSIVE WithoutId(_, _)
WithoutId(s, itemId) ==
    IF s = <<>> THEN <<>>
    ELSE IF Head(s).id # itemId
         THEN <<Head(s)>> \o WithoutId(Tail(s), itemId)
         ELSE WithoutId(Tail(s), itemId)

----------------------------------------------------------------------------
(* Products *)

NoColor == "null"
NoSize == "null"

ProductIds == {"p1", "p2"}
MissingProduct == "p0"
StockValues == {0, 2}
EditableProducts == {"p1"}

InitProducts ==
    [p \in ProductIds |->
        IF p = "p1"
        THEN [price |-> 20000, stock |-> 2, isActive |-> TRUE,
              variants |-> [v \in {<<"red", "9">>} |-> 1]]
        ELSE [price |-> 15000, stock |-> 12, isActive |-> TRUE,
              variants |-> [v \in {<<"red", "9">>} |-> 0]]]

----------------------------------------------------------------------------
(* Cart model (models/Cart.js) *)

NoCart == [absent |-> "cart"]
NoDoc == [absent |-> "doc"]
NoCoupon == [code |-> "none", discount |-> 0, type |-> "percentage"]

validCoupons ==
    [c \in {"SAVE10", "SAVE20", "FREESHIP"} |->
        CASE c = "SAVE10"   -> [discount |-> 10, type |-> "percentage"]
          [] c = "SAVE20"   -> [discount |-> 20, type |-> "percentage"]
          [] c = "FREESHIP" -> [discount |-> 5990, type |-> "fixed"]]

CouponCodes == {"SAVE10", "SAVE20", "FREESHIP", "BOGUS"}

\* validCoupons is an object literal: validCoupons[code] also finds what
\* the literal inherits from Object.prototype ('constructor', 'toString',
\* ...), a truthy value without discount and type
ObjectPrototypeKeys == {"constructor"}
Undefined == [discount |-> 0, type |-> "percentage"]
NotFound == [discount |-> -1, type |-> "none"]

\* validCoupons[code]; of an inherited member, discount is undefined (no
\* discount > 0 for calculateTotals) and type undefined, which applyCoupon
\* replaces by its default 'percentage'
couponOf(code) ==
    IF code \in DOMAIN validCoupons THEN validCoupons[code]
    ELSE IF code \in ObjectPrototypeKeys THEN Undefined
    ELSE NotFound

\* new Cart({ user }): the schema defaults
NewCart ==
    [items |-> <<>>, subtotal |-> 0, tax |-> 0, shipping |-> 0,
     discount |-> 0, total |-> 0, coupon |-> NoCoupon]

LineTotals(items) == [i \in 1..Len(items) |-> items[i].price * items[i].quantity]

calculateTotalsNoTax(c) ==
    LET subtotal == SumSeq(LineTotals(c.items))
        tax == (subtotal * TaxPerMille) \div 1000
        shipping == IF subtotal >= FreeShippingFrom THEN 0 ELSE ShippingFee
        discountAmount ==
            IF c.coupon.type = "percentage"
            THEN (subtotal * c.coupon.discount) \div 100
            ELSE c.coupon.discount
        discount ==
            IF c.coupon.discount > 0 THEN Min(discountAmount, subtotal)
            ELSE c.discount
    IN [c EXCEPT !.subtotal = subtotal, !.tax = tax, !.shipping = shipping,
                 !.discount = discount,
                 !.total = subtotal + shipping - discount]

\* cartSchema.methods.calculateTotals: the discount is written only when a
\* coupon with a positive discount is present; otherwise it keeps its value.
calculateTotals(c) ==
    LET subtotal == SumSeq(LineTotals(c.items))
        tax == (subtotal * TaxPerMille) \div 1000
        shipping == IF subtotal >= FreeShippingFrom THEN 0 ELSE ShippingFee
        discountAmount ==
            IF c.coupon.type = "percentage"
            THEN (subtotal * c.coupon.discount) \div 100
            ELSE c.coupon.discount
        discount ==
            IF c.coupon.discount > 0 THEN Min(discountAmount, subtotal)
            ELSE c.discount
    IN [c EXCEPT !.subtotal = subtotal, !.tax = tax, !.shipping = shipping,
                 !.discount = discount,
                 !.total = subtotal + tax + shipping - discount]

SameLine(item, pid, color, size) ==
    item.product = pid /\ item.color = color /\ item.size = size

\* items.findIndex(...): the first matching index, 0 when there is none
findIndex(items, pid, color, size) ==
    LET hits == {i \in 1..Len(items) : SameLine(items[i], pid, color, size)}
    IN IF hits = {} THEN 0 ELSE CHOOSE i \in hits : \A j \in hits : i <= j

\* the _id the store gives a new line: one no line of the cart holds
FreshItemId(items) ==
    LET used == {items[i].id : i \in 1..Len(items)}
    IN CHOOSE n \in 1..(Len(items) + 1) : n \notin used

addItemNoClamp(c, pid, product, quantity, color, size) ==
    LET i == findIndex(c.items, pid, color, size)
        items ==
            IF i > 0
            THEN [c.items EXCEPT ![i].quantity = c.items[i].quantity + quantity]
            ELSE Append(c.items,
                        [id |-> FreshItemId(c.items), product |-> pid,
                         price |-> product.price, quantity |-> quantity,
                         color |-> color, size |-> size,
                         maxQuantity |-> Min(product.stock, MaxPerItem)])
    IN calculateTotals([c EXCEPT !.items = items])

\* cartSchema.methods.addItem
addItem(c, pid, product, quantity, color, size) ==
    LET i == findIndex(c.items, pid, color, size)
        summed == c.items[i].quantity + quantity
        items ==
            IF i > 0
            THEN [c.items EXCEPT ![i].quantity =
                      IF summed > c.items[i].maxQuantity
                      THEN c.items[i].maxQuantity ELSE summed]
            ELSE Append(c.items,
                        [id |-> FreshItemId(c.items), product |-> pid,
                         price |-> product.price, quantity |-> quantity,
                         color |-> color, size |-> size,
                         maxQuantity |-> Min(product.stock, MaxPerItem)])
    IN calculateTotals([c EXCEPT !.items = items])

\* cartSchema.methods.removeItem
removeItem(c, itemId) ==
    calculateTotals([c EXCEPT !.items = WithoutId(c.items, itemId)])

\* cartSchema.methods.updateItemQuantity
updateItemQuantity(c, itemId, quantity) ==
    LET hits == {i \in 1..Len(c.items) : c.items[i].id = itemId}
    IN IF hits = {} THEN c
       ELSE LET i == CHOOSE k \in hits : \A j \in hits : k <= j
            IN calculateTotals(
                 [c EXCEPT !.items[i].quantity =
                      Min(Max(1, quantity), c.items[i].maxQuantity)])

\* cartSchema.methods.clearCart
clearCart(c) ==
    [c EXCEPT !.items = <<>>, !.subtotal = 0, !.tax = 0, !.shipping = 0,
              !.discount = 0, !.total = 0, !.coupon = NoCoupon]

applyCouponAsFixed(c, couponCode, discount, type) ==
    calculateTotals([c EXCEPT !.coupon =
        [code |-> couponCode, discount |-> discount, type |-> "fixed"]])

\* cartSchema.methods.applyCoupon
applyCoupon(c, couponCode, discount, type) ==
    calculateTotals([c EXCEPT !.coupon =
        [code |-> couponCode, discount |-> discount, type |-> type]])

\* cartSchema.methods.removeCoupon
removeCoupon(c) == calculateTotals([c EXCEPT !.coupon = NoCoupon])

\* Schema validation run by save(): items.quantity has min 1
validCart(c) == \A i \in 1..Len(c.items) : c.items[i].quantity >= 1

\* cartSchema.pre('save')
preSave(c) == calculateTotals(c)

----------------------------------------------------------------------------
(* The last request *)

\* nothing fails: transporter.sendMail resolves, every product.save() too
NoFaults == [mail |-> FALSE, productSave |-> 0]

\* the failures that can be in force: the transport refuses the mail, the
\* k-th product.save() of a request throws
MaxSaves == 2
Faults == [mail : BOOLEAN, productSave : 0..MaxSaves]

\* await sendEmail(...) at the end of a handler's try block: sendEmail
\* rethrows what the transport throws, the handler's catch answers 500
afterSendEmail(code) == IF faults.mail THEN 500 ELSE code

\* requests that can be under way at the same time
Requests == {"r1", "r2"}
Idle == [op |-> "idle"]

NoLast == [op |-> "none", code |-> 0, merged |-> FALSE, generated |-> <<>>]

Req(op, code) == [NoLast EXCEPT !.op = op, !.code = code]

\* cart.save(): validation, then the pre-save hook, then the write.  A
\* validation error is caught by the handler and answered with 500.
SaveCart(d, req) ==
    /\ doc' = d
    /\ IF validCart(d)
       THEN /\ cart' = preSave(d)
            /\ last' = [req EXCEPT !.code = 200]
       ELSE /\ cart' = cart
            /\ last' = [req EXCEPT !.code = 500]

----------------------------------------------------------------------------
(* Cart routes (utils/sendEmail.js holds the cart router) *)

Quantities == 0..MaxQty
\* requests of POST /api/cart/items: product, color, size
AddInputs ==
    {<<"p1", NoColor, NoSize>>, <<"p1", "red", NoSize>>, <<"p1", "red", "9">>,
     <<"p2", NoColor, NoSize>>, <<MissingProduct, NoColor, NoSize>>}
PlainInputs == {<<"p1", NoColor, NoSize>>, <<"p2", NoColor, NoSize>>}
ItemIds == 1..(MaxItems + 1)

\* Cart.findOne({ user }) || Cart.create({ user }): create saves the new
\* document, so its pre-save hook has run on it.
FindOrCreateCart == IF cart = NoCart THEN preSave(NewCart) ELSE cart

\* GET /api/cart
GetCart ==
    /\ cart' = FindOrCreateCart
    /\ doc' = cart'
    /\ last' = Req("getCart", 200)
    /\ UNCHANGED <<products, orderVars, otherVars>>

\* POST /api/cart/items
PostCartItems(pid, quantity, color, size) ==
    LET req == [Req("addItem", 0) EXCEPT
                   !.merged = /\ cart # NoCart
                              /\ findIndex(cart.items, pid, color, size) > 0]
    IN
    /\ UNCHANGED <<products, orderVars, otherVars>>
    /\ IF quantity < 1
       THEN /\ last' = [req EXCEPT !.code = 400]
            /\ doc' = NoDoc
            /\ cart' = cart
       ELSE IF pid \notin DOMAIN products
       THEN /\ last' = [req EXCEPT !.code = 404]
            /\ doc' = NoDoc
            /\ cart' = cart
       ELSE IF ~products[pid].isActive
       THEN /\ last' = [req EXCEPT !.code = 400]
            /\ doc' = NoDoc
            /\ cart' = cart
       ELSE LET found == FindOrCreateCart
                d == addItem(found, pid, products[pid], quantity, color, size)
            IN /\ Len(d.items) <= MaxItems
               /\ doc' = d
               /\ IF validCart(d)
                  THEN /\ cart' = preSave(d)
                       /\ last' = [req EXCEPT !.code = 200]
                  ELSE /\ cart' = found
                       /\ last' = [req EXCEPT !.code = 500]

\* PUT /api/cart/items/:itemId
PutCartItem(itemId, quantity) ==
    /\ UNCHANGED <<products, orderVars, otherVars>>
    /\ IF quantity < 1
       THEN /\ last' = Req("updateItemQuantity", 400)
            /\ UNCHANGED cartVars
       ELSE IF cart = NoCart
       THEN /\ last' = Req("updateItemQuantity", 404)
            /\ UNCHANGED cartVars
       ELSE SaveCart(updateItemQuantity(cart, itemId, quantity),
                     Req("updateItemQuantity", 0))

\* DELETE /api/cart/items/:itemId
DeleteCartItem(itemId) ==
    /\ UNCHANGED <<products, orderVars, otherVars>>
    /\ IF cart = NoCart
       THEN /\ last' = Req("removeItem", 404)
            /\ UNCHANGED cartVars
       ELSE SaveCart(removeItem(cart, itemId), Req("removeItem", 0))

\* DELETE /api/cart
DeleteCart ==
    /\ UNCHANGED <<products, orderVars, otherVars>>
    /\ IF cart = NoCart
       THEN /\ last' = Req("clear", 404)
            /\ UNCHANGED cartVars
       ELSE SaveCart(clearCart(cart), Req("clear", 0))

\* POST /api/cart/coupon
PostCoupon(code) ==
    /\ UNCHANGED <<products, orderVars, otherVars>>
    /\ IF couponOf(code) = NotFound
       THEN /\ last' = Req("applyCoupon", 400)
            /\ UNCHANGED cartVars
       ELSE IF cart = NoCart
       THEN /\ last' = Req("applyCoupon", 404)
            /\ UNCHANGED cartVars
       ELSE SaveCart(applyCoupon(cart, code, couponOf(code).discount,
                                 couponOf(code).type),
                     Req("applyCoupon", 0))

\* DELETE /api/cart/coupon
DeleteCoupon ==
    /\ UNCHANGED <<products, orderVars, otherVars>>
    /\ IF cart = NoCart
       THEN /\ last' = Req("removeCoupon", 404)
            /\ UNCHANGED cartVars
       ELSE SaveCart(removeCoupon(cart), Req("removeCoupon", 0))

\* PUT /api/admin/products/:id with a body that sets isActive
AdminSetActive(pid, isActive) ==
    /\ products' = [products EXCEPT ![pid].isActive = isActive]
    /\ last' = Req("updateProduct", 200)
    /\ doc' = NoDoc
    /\ UNCHANGED <<cart, orderVars, otherVars>>

\* PUT /api/admin/products/:id with a body that sets the price
AdminSetPrice(pid, price) ==
    /\ products' = [products EXCEPT ![pid].price = price]
    /\ last' = Req("updateProduct", 200)
    /\ doc' = NoDoc
    /\ UNCHANGED <<cart, orderVars, otherVars>>

\* PUT /api/admin/products/:id with a body that sets the stock
AdminUpdateProduct(pid, stock) ==
    /\ products' = [products EXCEPT ![pid].stock = stock]
    /\ last' = Req("updateProduct", 200)
    /\ doc' = NoDoc
    /\ UNCHANGED <<cart, orderVars, otherVars>>

----------------------------------------------------------------------------
(* Order model (models/Order.js) *)

MaxOrders == 1
MaxCreates == 3
MaxHistory == 4

Statuses ==
    {"pending", "processing", "shipped", "delivered", "cancelled", "refunded"}

Guest == "guest"
Admin == "admin"
NoReason == <<"undefined">>
NoNumber == <<>>

\* calendar days the model runs through (new Date())
Dates ==
    <<[year |-> 2024, month |-> 6, date |-> 15],
      [year |-> 2024, month |-> 6, date |-> 16]>>

\* Number.prototype.toString(): the decimal digits
RECURSIVE toString(_)
toString(n) ==
    IF n < 10 THEN <<n>> ELSE Append(toString(n \div 10), n % 10)

\* String.prototype.padStart(width, '0')
RECURSIVE padStart(_, _)
padStart(str, width) ==
    IF Len(str) >= width THEN str ELSE padStart(<<0>> \o str, width)

\* String.prototype.slice(-2)
sliceLast2(str) ==
    IF Len(str) <= 2 THEN str ELSE SubSeq(str, Len(str) - 1, Len(str))

\* countDocuments({ createdAt: { $gte: today, $lt: tomorrow } })
countToday(coll, day) ==
    Cardinality({id \in DOMAIN coll : coll[id].createdDay = day})

\* orderSchema.pre('save'), the order number: year, month, day and the
\* count of the day's stored orders plus one
generateOrderNumber(coll, day) ==
    sliceLast2(toString(Dates[day].year))
        \o padStart(toString(Dates[day].month), 2)
        \o padStart(toString(Dates[day].date), 2)
        \o padStart(toString(countToday(coll, day) + 1), 3)

\* refundInfo of a document nobody has written it on: the schema defaults
NoRefund == [amount |-> 0, reason |-> NoReason, status |-> "pending"]

\* a date field nobody has set; set dates are days of the model, counted
\* from 1, and a date n days later is the day plus n
NoDate == 0
NoShippingInfo ==
    [shippedAt |-> NoDate, estimatedDelivery |-> NoDate, deliveredAt |-> NoDate]

\* orderSchema.methods.updateStatus
updateStatus(o, newStatus, note) ==
    [o EXCEPT !.status = newStatus,
              !.statusHistory =
                  Append(@, [status |-> newStatus, note |-> note]),
              !.shippingInfo.shippedAt =
                  IF newStatus = "shipped" THEN today ELSE @,
              !.shippingInfo.deliveredAt =
                  IF newStatus = "delivered" THEN today ELSE @,
              !.actualDeliveryDate =
                  IF newStatus = "delivered" THEN today ELSE @]

canBeCancelledAlways(o) == TRUE

\* orderSchema.methods.canBeCancelled
canBeCancelled(o) == o.status \in {"pending", "processing", "shipped"}

\* orderSchema.methods.canBeRefunded
canBeRefunded(o) == o.status \in {"delivered", "shipped"}

\* orderSchema.pre('save'), the status history: one more entry when the
\* status differs from the stored one (isModified('status'))
pushIfStatusModified(o, statusModified) ==
    IF statusModified
    THEN [o EXCEPT !.statusHistory =
              Append(@, [status |-> o.status, note |-> "undefined"])]
    ELSE o

\* order.save() of a stored order
saveOrder(coll, id, o) ==
    [coll EXCEPT ![id] = pushIfStatusModified(o, o.status # coll[id].status)]

----------------------------------------------------------------------------
(* Order routes (routes/order.js, routes/admin.js) *)

roleAlwaysAdmin(caller) == "admin"

\* req.user.role
role(caller) == IF caller = Admin THEN "admin" ELSE "user"

NoAmount == [given |-> FALSE, value |-> 0]
Amounts == {NoAmount, [given |-> TRUE, value |-> 0],
            [given |-> TRUE, value |-> 5000]}

\* express-validator trim(): leading and trailing blanks removed
RECURSIVE trimStart(_)
trimStart(str) ==
    IF str # <<>> /\ Head(str) = " " THEN trimStart(Tail(str)) ELSE str

RECURSIVE trimEnd(_)
trimEnd(str) ==
    IF str # <<>> /\ str[Len(str)] = " "
    THEN trimEnd(SubSeq(str, 1, Len(str) - 1)) ELSE str

trim(str) == trimEnd(trimStart(str))

Reasons == {<<>>, <<" ">>, <<"x">>, <<" ", "x">>}

\* request bodies of POST /api/orders: items as product, color, size, quantity
ItemLists ==
    {<<>>,
     <<[product |-> "p1", color |-> "red", size |-> "9", quantity |-> 2]>>,
     <<[product |-> "p1", color |-> "red", size |-> "9", quantity |-> 1],
       [product |-> "p2", color |-> "red", size |-> "9", quantity |-> 1]>>,
     <<[product |-> "p2", color |-> "red", size |-> "9", quantity |-> 1],
       [product |-> "p2", color |-> "red", size |-> "9", quantity |-> 2]>>,
     <<[product |-> "p1", color |-> "blue", size |-> "9", quantity |-> 1]>>,
     <<[product |-> "p1", color |-> "red", size |-> NoSize, quantity |-> 1]>>,
     <<[product |-> MissingProduct, color |-> "red", size |-> "9",
        quantity |-> 1]>>}

\* the order number a client may send along
ClientNumbers == {NoNumber, <<2, 4, 0, 6, 1, 5, 0, 0, 2>>}

orderItemsClientPrice(items) ==
    [i \in 1..Len(items) |->
        [product |-> items[i].product, price |-> items[i].price,
         quantity |-> items[i].quantity, color |-> items[i].color,
         size |-> items[i].size]]

\* orderItems.push: the price is the found product's
orderItems(items) ==
    [i \in 1..Len(items) |->
        [product |-> items[i].product, price |-> products[items[i].product].price,
         quantity |-> items[i].quantity, color |-> items[i].color,
         size |-> items[i].size]]

\* orderData of POST /api/orders with the schema's defaults: the totals
\* are computed from the lines
orderData(caller, lines, number) ==
    LET itemsPrice ==
            SumSeq([i \in 1..Len(lines) |-> lines[i].price * lines[i].quantity])
        taxPrice == (itemsPrice * TaxPerMille) \div 1000
        shippingPrice ==
            IF itemsPrice >= FreeShippingFrom THEN 0 ELSE ShippingFee
    IN [user |-> caller, items |-> lines,
        itemsPrice |-> itemsPrice, taxPrice |-> taxPrice,
        shippingPrice |-> shippingPrice,
        totalPrice |-> itemsPrice + taxPrice + shippingPrice,
        status |-> "pending", statusHistory |-> <<>>,
        shippingInfo |-> NoShippingInfo, actualDeliveryDate |-> NoDate,
        refundInfo |-> NoRefund, orderNumber |-> number,
        createdDay |-> today]

\* POST /api/orders.  A document that carries no number meets both the
\* schema's "required" on orderNumber and the pre-save hook that assigns
\* one; which of the two the library runs first is not the repository's
\* to say, so both outcomes are kept: the save is rejected (500), or the
\* hook assigns the number.  The unique index on orderNumber rejects a
\* duplicate; the handler answers that with 500.
PostOrder(caller, items, orderNumber) ==
    LET req == Req("createOrder", 0)
        bad == \E i \in 1..Len(items) :
                  \/ items[i].color = NoColor \/ items[i].size = NoSize
                  \/ items[i].product \notin DOMAIN products
        number ==
            IF orderNumber = NoNumber
            THEN generateOrderNumber(orders, today) ELSE orderNumber
        order == orderData(caller, orderItems(items), number)
    IN
    /\ UNCHANGED <<products, cartVars, today, otherVars>>
    /\ IF items = <<>> \/ bad
       THEN /\ last' = [req EXCEPT !.code = 400]
            /\ UNCHANGED <<orders, nextOrderId>>
       ELSE \/ /\ orderNumber = NoNumber
               /\ last' = [req EXCEPT !.code = 500]
               /\ UNCHANGED <<orders, nextOrderId>>
            \/ IF \E id \in DOMAIN orders : orders[id].orderNumber = number
               THEN /\ last' = [req EXCEPT !.code = 500,
                                    !.generated = IF orderNumber = NoNumber
                                                  THEN number ELSE NoNumber]
                    /\ UNCHANGED <<orders, nextOrderId>>
               ELSE /\ orders' = (nextOrderId :> order) @@ orders
                    /\ nextOrderId' = nextOrderId + 1
                    /\ last' = [req EXCEPT !.code = afterSendEmail(201),
                                    !.generated = IF orderNumber = NoNumber
                                                  THEN number ELSE NoNumber]

\* request bodies of POST /api/orders that also carry what the handler
\* does not read: a price on each item and totals
PricedItemLists ==
    {<<[product |-> "p1", color |-> "red", size |-> "9", quantity |-> q,
        price |-> c]>> : q \in {1, 2}, c \in {20000, 1}}
    \cup
    {<<[product |-> "p1", color |-> "red", size |-> "9", quantity |-> 1,
        price |-> c],
       [product |-> "p2", color |-> "red", size |-> "9", quantity |-> 2,
        price |-> c]>> : c \in {15000, 1}}

Bodies ==
    [items : PricedItemLists, orderNumber : {NoNumber},
     itemsPrice : {0}, taxPrice : {0}, shippingPrice : {0},
     totalPrice : {0, 1}]

\* const { items, ..., orderNumber } = req.body: the handler reads these
\* two and the addresses and payment info, nothing else of the body
PostOrderBody(caller, body) == PostOrder(caller, body.items, body.orderNumber)

\* PUT /api/orders/:id/status, after order.updateStatus(): the dates the
\* route sets itself, estimatedDelivery three days from now
routeDates(o, status) ==
    [o EXCEPT !.shippingInfo.shippedAt =
                  IF status = "shipped" THEN today ELSE @,
              !.shippingInfo.estimatedDelivery =
                  IF status = "shipped" THEN today + 3 ELSE @,
              !.shippingInfo.deliveredAt =
                  IF status = "delivered" THEN today ELSE @,
              !.actualDeliveryDate =
                  IF status = "delivered" THEN today ELSE @]

\* PUT /api/orders/:id/status
PutStatus(id, caller, status, note) ==
    /\ UNCHANGED <<products, cartVars, nextOrderId, today, otherVars>>
    /\ IF status \notin Statuses
       THEN /\ last' = Req("updateStatus", 400)
            /\ orders' = orders
       ELSE IF id \notin DOMAIN orders
       THEN /\ last' = Req("updateStatus", 404)
            /\ orders' = orders
       ELSE IF role(caller) # "admin"
       THEN /\ last' = Req("updateStatus", 403)
            /\ orders' = orders
       ELSE /\ Len(orders[id].statusHistory) + 2 <= MaxHistory
            /\ orders' = saveOrder(orders, id,
                     routeDates(updateStatus(orders[id], status, note),
                                status))
            /\ last' = Req("updateStatus", afterSendEmail(200))

\* the stock-restoring loop of PUT /api/orders/:id/cancel: each line finds
\* its product, adds the quantity to the variant or to the stock, and saves
RECURSIVE restoreStock(_, _)
restoreStock(prods, items) ==
    IF items = <<>> THEN prods
    ELSE LET item == Head(items)
             pid == item.product
             v == <<item.color, item.size>>
             next ==
                 IF pid \notin DOMAIN prods THEN prods
                 ELSE IF item.color # NoColor /\ item.size # NoSize
                 THEN IF v \in DOMAIN prods[pid].variants
                      THEN [prods EXCEPT ![pid].variants[v] = @ + item.quantity]
                      ELSE prods
                 ELSE [prods EXCEPT ![pid].stock = @ + item.quantity]
         IN restoreStock(next, Tail(items))

restoreStockRolledBack(prods, items, k) ==
    [products |-> prods, threw |-> k \in 1..Len(items)]

\* the same loop when the k-th product.save() throws (k = 0: none does):
\* the lines before it are saved, the loop is left, nothing is undone
RECURSIVE restoreStockThrowing(_, _, _)
restoreStockThrowing(prods, items, k) ==
    IF items = <<>> THEN [products |-> prods, threw |-> FALSE]
    ELSE LET found == Head(items).product \in DOMAIN prods
         IN IF found /\ k = 1
            THEN [products |-> prods, threw |-> TRUE]
            ELSE restoreStockThrowing(restoreStock(prods, <<Head(items)>>),
                                      Tail(items),
                                      IF found THEN k - 1 ELSE k)

PutCancelAnyCaller(id, caller) ==
    /\ UNCHANGED <<cartVars, nextOrderId, today, otherVars>>
    /\ IF id \notin DOMAIN orders
       THEN /\ last' = Req("cancel", 404)
            /\ UNCHANGED <<orders, products>>
       ELSE IF ~canBeCancelled(orders[id])
       THEN /\ last' = Req("cancel", 400)
            /\ UNCHANGED <<orders, products>>
       ELSE /\ Len(orders[id].statusHistory) + 2 <= MaxHistory
            /\ products' = restoreStock(products, orders[id].items)
            /\ orders' = saveOrder(orders, id,
                     updateStatus(orders[id], "cancelled",
                                  "Cancelled by customer"))
            /\ last' = Req("cancel", 200)

\* PUT /api/orders/:id/cancel.  An order without a user (guest checkout)
\* makes order.user.toString() throw; the handler answers 500.
PutCancel(id, caller) ==
    /\ UNCHANGED <<cartVars, nextOrderId, today, otherVars>>
    /\ IF id \notin DOMAIN orders
       THEN /\ last' = Req("cancel", 404)
            /\ UNCHANGED <<orders, products>>
       ELSE IF orders[id].user = Guest
       THEN /\ last' = Req("cancel", 500)
            /\ UNCHANGED <<orders, products>>
       ELSE IF orders[id].user # caller
       THEN /\ last' = Req("cancel", 403)
            /\ UNCHANGED <<orders, products>>
       ELSE IF ~canBeCancelled(orders[id])
       THEN /\ last' = Req("cancel", 400)
            /\ UNCHANGED <<orders, products>>
       ELSE LET loop == restoreStockThrowing(products, orders[id].items,
                                             faults.productSave)
            IN /\ Len(orders[id].statusHistory) + 2 <= MaxHistory
               /\ products' = loop.products
               /\ IF loop.threw
                  THEN /\ orders' = orders
                       /\ last' = Req("cancel", 500)
                  ELSE /\ orders' = saveOrder(orders, id,
                                updateStatus(orders[id], "cancelled",
                                             "Cancelled by customer"))
                       /\ last' = Req("cancel", afterSendEmail(200))

refundAmountAsGiven(amount, totalPrice) == amount.value

\* amount || order.totalPrice
refundAmount(amount, totalPrice) ==
    IF amount.given /\ amount.value # 0 THEN amount.value ELSE totalPrice

\* POST /api/orders/:id/refund
PostRefund(id, caller, reason, amount) ==
    /\ UNCHANGED <<products, cartVars, nextOrderId, today, otherVars>>
    /\ IF trim(reason) = <<>>
       THEN /\ last' = Req("requestRefund", 400)
            /\ orders' = orders
       ELSE IF id \notin DOMAIN orders
       THEN /\ last' = Req("requestRefund", 404)
            /\ orders' = orders
       ELSE IF orders[id].user = Guest
       THEN /\ last' = Req("requestRefund", 500)
            /\ orders' = orders
       ELSE IF orders[id].user # caller
       THEN /\ last' = Req("requestRefund", 403)
            /\ orders' = orders
       ELSE IF ~canBeRefunded(orders[id])
       THEN /\ last' = Req("requestRefund", 400)
            /\ orders' = orders
       ELSE IF orders[id].refundInfo.status # "pending"
       THEN /\ last' = Req("requestRefund", 400)
            /\ orders' = orders
       ELSE /\ orders' = saveOrder(orders, id,
                     [orders[id] EXCEPT !.refundInfo =
                         [amount |-> refundAmount(amount, orders[id].totalPrice),
                          reason |-> trim(reason), status |-> "pending"]])
            /\ last' = Req("requestRefund", 200)

DeleteOrderAnyCaller(id, caller) ==
    /\ UNCHANGED <<products, cartVars, nextOrderId, today, otherVars>>
    /\ IF id \notin DOMAIN orders
       THEN /\ last' = Req("deleteOrder", 404)
            /\ orders' = orders
       ELSE IF ~canBeCancelled(orders[id])
       THEN /\ last' = Req("deleteOrder", 400)
            /\ orders' = orders
       ELSE /\ orders' = [i \in DOMAIN orders \ {id} |-> orders[i]]
            /\ last' = Req("deleteOrder", 200)

\* DELETE /api/orders/:id
DeleteOrder(id, caller) ==
    /\ UNCHANGED <<products, cartVars, nextOrderId, today, otherVars>>
    /\ IF id \notin DOMAIN orders
       THEN /\ last' = Req("deleteOrder", 404)
            /\ orders' = orders
       ELSE IF orders[id].user = Guest
       THEN /\ last' = Req("deleteOrder", 500)
            /\ orders' = orders
       ELSE IF orders[id].user # caller
       THEN /\ last' = Req("deleteOrder", 403)
            /\ orders' = orders
       ELSE IF ~canBeCancelled(orders[id])
       THEN /\ last' = Req("deleteOrder", 400)
            /\ orders' = orders
       ELSE /\ orders' = [i \in DOMAIN orders \ {id} |-> orders[i]]
            /\ last' = Req("deleteOrder", 200)

RefundDecisions == {"approved", "rejected", "completed"}

\* PUT /api/admin/orders/:id, findByIdAndUpdate with the request body: no
\* validation, no save hook.  Bodies: { 'refundInfo.status': s } and
\* { items: [...] } with the lines' color and size left out.
AdminUpdateOrder(id, body) ==
    /\ UNCHANGED <<products, cartVars, nextOrderId, today, otherVars>>
    /\ last' = Req("adminUpdateOrder", 200)
    /\ IF id \notin DOMAIN orders
       THEN orders' = orders
       ELSE IF body.field = "refundInfo.status"
       THEN orders' = [orders EXCEPT ![id].refundInfo.status = body.value]
       ELSE orders' = [orders EXCEPT ![id].items =
                [i \in 1..Len(@) |->
                    [@[i] EXCEPT !.color = NoColor, !.size = NoSize]]]

\* PUT /api/admin/orders/:id/status: the status is assigned and an entry
\* pushed by hand, then save() runs the schema's enum validation and the
\* pre-save hook.
AdminPutStatus(id, status, note) ==
    /\ UNCHANGED <<products, cartVars, nextOrderId, today, otherVars>>
    /\ IF id \notin DOMAIN orders
       THEN /\ last' = Req("adminStatus", 404)
            /\ orders' = orders
       ELSE IF status \notin Statuses
       THEN /\ last' = Req("adminStatus", 500)
            /\ orders' = orders
       ELSE /\ Len(orders[id].statusHistory) + 2 <= MaxHistory
            /\ orders' = saveOrder(orders, id,
                     [orders[id] EXCEPT
                         !.status = status,
                         !.statusHistory =
                             Append(@, [status |-> status, note |-> note])])
            /\ last' = Req("adminStatus", 200)

AdminBodies ==
    {[field |-> "refundInfo.status", value |-> s] : s \in RefundDecisions}
        \cup {[field |-> "items", value |-> "plain"]}

\* the clock passes midnight
----------------------------------------------------------------------------
(* Requests under way at the same time: a handler runs up to its await,
   other handlers run, then it goes on with what it has read *)

\* a request that may start: none under way under this id
Free(r) == inflight[r].op \in {"idle", "answered"}

\* POST /api/orders up to the count of the pre-save hook: the document
\* holds the number made from the count it has read
CountOrders(r, caller, items) ==
    /\ Free(r)
    /\ items # <<>>
    /\ \A i \in 1..Len(items) :
          /\ items[i].color # NoColor /\ items[i].size # NoSize
          /\ items[i].product \in DOMAIN products
    /\ inflight' = [inflight EXCEPT ![r] =
          [op |-> "createOrder",
           order |-> orderData(caller, orderItems(items),
                               generateOrderNumber(orders, today))]]
    /\ last' = Req("countOrders", 0)
    /\ UNCHANGED <<products, cartVars, orderVars, faults, paymentMethods>>

\* POST /api/orders from the hook's next() on: the insert, refused by the
\* unique index when a stored order holds the number, then the answer
InsertOrder(r) ==
    /\ inflight[r].op = "createOrder"
    /\ LET order == inflight[r].order
           taken == \E id \in DOMAIN orders :
                       orders[id].orderNumber = order.orderNumber
           code == IF taken THEN 500 ELSE afterSendEmail(201)
       IN /\ IF taken
             THEN UNCHANGED <<orders, nextOrderId>>
             ELSE /\ orders' = (nextOrderId :> order) @@ orders
                  /\ nextOrderId' = nextOrderId + 1
          /\ last' = [Req("createOrder", code) EXCEPT
                         !.generated = order.orderNumber]
          /\ inflight' = [inflight EXCEPT ![r] =
                [op |-> "answered", code |-> code, request |-> "createOrder",
                 orderNumber |-> order.orderNumber]]
    /\ UNCHANGED <<products, cartVars, today, faults, paymentMethods>>

\* POST /api/cart/items up to Cart.findOne / Cart.create: the handler
\* holds the cart document it has read
FindCart(r, pid, quantity, color, size) ==
    /\ Free(r)
    /\ quantity >= 1
    /\ pid \in DOMAIN products
    /\ products[pid].isActive
    /\ cart' = FindOrCreateCart
    /\ inflight' = [inflight EXCEPT ![r] =
          [op |-> "addItem", doc |-> cart', product |-> pid,
           quantity |-> quantity, color |-> color, size |-> size]]
    /\ last' = Req("findCart", 0)
    /\ UNCHANGED <<products, doc, orderVars, faults, paymentMethods>>

\* the totals a save writes: the fields whose value in the document
\* differs from the one it was loaded with
writeModified(stored, loaded, d) ==
    [stored EXCEPT
        !.subtotal = IF d.subtotal # loaded.subtotal THEN d.subtotal ELSE @,
        !.tax = IF d.tax # loaded.tax THEN d.tax ELSE @,
        !.shipping = IF d.shipping # loaded.shipping THEN d.shipping ELSE @,
        !.discount = IF d.discount # loaded.discount THEN d.discount ELSE @,
        !.total = IF d.total # loaded.total THEN d.total ELSE @]

SaveAddedItemOnStored(r) ==
    /\ inflight[r].op = "addItem"
    /\ LET in == inflight[r]
           d == addItem(cart, in.product, products[in.product],
                        in.quantity, in.color, in.size)
       IN /\ Len(d.items) <= MaxItems
          /\ doc' = d
          /\ cart' = d
          /\ last' = [Req("addItem", 200) EXCEPT
                         !.merged = findIndex(cart.items, in.product,
                                              in.color, in.size) > 0]
          /\ inflight' = [inflight EXCEPT ![r] =
                [op |-> "answered", code |-> 200, request |-> "addItem",
                 product |-> in.product, quantity |-> in.quantity,
                 read |-> 0]]
    /\ UNCHANGED <<products, orderVars, faults, paymentMethods>>

\* POST /api/cart/items from cart.addItem() on: the change is made on the
\* document read earlier and save() writes what was modified on it, a
\* pushed line as a push, a changed quantity at its position (refused
\* when lines were pushed since the read: the document's version moved),
\* the totals as computed from the document
SaveAddedItem(r) ==
    /\ inflight[r].op = "addItem"
    /\ LET in == inflight[r]
           loaded == in.doc
           i == findIndex(loaded.items, in.product, in.color, in.size)
           d == preSave(addItem(loaded, in.product, products[in.product],
                                in.quantity, in.color, in.size))
           moved == Len(cart.items) # Len(loaded.items)
           written ==
               IF i > 0
               THEN [cart EXCEPT !.items[i].quantity = d.items[i].quantity]
               ELSE [cart EXCEPT !.items =
                        Append(@, [d.items[Len(d.items)] EXCEPT
                                      !.id = FreshItemId(cart.items)])]
           code == IF ~validCart(d) \/ (i > 0 /\ moved) THEN 500 ELSE 200
       IN /\ i = 0 => Len(cart.items) + 1 <= MaxItems
          /\ doc' = d
          /\ cart' = IF code = 200 THEN writeModified(written, loaded, d)
                     ELSE cart
          /\ last' = [Req("addItem", code) EXCEPT !.merged = i > 0]
          /\ inflight' = [inflight EXCEPT ![r] =
                [op |-> "answered", code |-> code, request |-> "addItem",
                 product |-> in.product, quantity |-> in.quantity,
                 read |-> IF i > 0 THEN loaded.items[i].quantity ELSE 0]]
    /\ UNCHANGED <<products, orderVars, faults, paymentMethods>>

\* PUT /api/orders/:id/cancel up to the checks on the order it has found
FindOrderToCancel(r, id, caller) ==
    /\ Free(r)
    /\ id \in DOMAIN orders
    /\ orders[id].user = caller
    /\ canBeCancelled(orders[id])
    /\ inflight' = [inflight EXCEPT ![r] =
          [op |-> "cancel", id |-> id, order |-> orders[id]]]
    /\ last' = Req("findOrder", 0)
    /\ UNCHANGED <<products, cartVars, orderVars, faults, paymentMethods>>

\* PUT /api/orders/:id/cancel from order.updateStatus() on: the stock loop
\* on the lines of the document read earlier, then order.save() writes the
\* status and pushes the entries added to the history of that document
RestoreAndSave(r) ==
    /\ inflight[r].op = "cancel"
    /\ LET id == inflight[r].id
           loaded == inflight[r].order
           o == pushIfStatusModified(
                    updateStatus(loaded, "cancelled", "Cancelled by customer"),
                    loaded.status # "cancelled")
           pushed == SubSeq(o.statusHistory, Len(loaded.statusHistory) + 1,
                            Len(o.statusHistory))
           loop == restoreStockThrowing(products, loaded.items,
                                        faults.productSave)
           code == IF loop.threw THEN 500 ELSE afterSendEmail(200)
       IN /\ id \in DOMAIN orders
          /\ Len(orders[id].statusHistory) + Len(pushed) <= MaxHistory
          /\ products' = loop.products
          /\ orders' = IF loop.threw THEN orders
                       ELSE [orders EXCEPT
                               ![id].status = "cancelled",
                               ![id].statusHistory = @ \o pushed]
          /\ last' = Req("cancel", code)
          /\ inflight' = [inflight EXCEPT ![r] =
                [op |-> "answered", code |-> code, request |-> "cancel",
                 id |-> id]]
    /\ UNCHANGED <<cartVars, nextOrderId, today, faults, paymentMethods>>

\* the transport or the database starts or stops failing
SetFaults(f) ==
    /\ f # faults
    /\ faults' = f
    /\ last' = Req("setFaults", 0)
    /\ UNCHANGED <<products, cartVars, orderVars, inflight, paymentMethods>>

NextDay ==
    /\ today < Len(Dates)
    /\ today' = today + 1
    /\ last' = Req("nextDay", 0)
    /\ UNCHANGED <<products, cartVars, orders, nextOrderId, otherVars>>

----------------------------------------------------------------------------
(* Payment methods (routes/payment.js) *)

MaxMethods == 4

NoMethods == [list |-> <<>>, created |-> 0]
MethodIds == 1..(MaxMethods + 1)

\* POST /api/payment/methods: an added method is the default when asked
\* for or when it is the first; asking for it clears the others
PostMethod(isDefault) ==
    LET cleared == [i \in 1..Len(paymentMethods.list) |->
                       [paymentMethods.list[i] EXCEPT !.isDefault = FALSE]]
        list == IF isDefault THEN cleared ELSE paymentMethods.list
        newPaymentMethod ==
            [id |-> paymentMethods.created + 1,
             isDefault |-> isDefault \/ Len(list) = 0]
    IN /\ paymentMethods.created < MaxMethods
       /\ paymentMethods' = [list |-> Append(list, newPaymentMethod),
                             created |-> paymentMethods.created + 1]
       /\ last' = Req("addMethod", 201)
       /\ UNCHANGED <<products, cartVars, orderVars, faults, inflight>>

\* DELETE /api/payment/methods/:id: splice, and when the default went and
\* methods remain, the first one becomes the default
DeleteMethod(id) ==
    LET list == paymentMethods.list
        hits == {i \in 1..Len(list) : list[i].id = id}
        paymentMethodIndex == CHOOSE k \in hits : \A j \in hits : k <= j
        rest == [i \in 1..(Len(list) - 1) |->
                    IF i < paymentMethodIndex THEN list[i] ELSE list[i + 1]]
    IN /\ UNCHANGED <<products, cartVars, orderVars, faults, inflight>>
       /\ IF hits = {}
          THEN /\ last' = Req("deleteMethod", 404)
               /\ paymentMethods' = paymentMethods
          ELSE /\ last' = Req("deleteMethod", 200)
               /\ paymentMethods' =
                     [paymentMethods EXCEPT !.list =
                         IF list[paymentMethodIndex].isDefault /\ Len(rest) > 0
                         THEN [rest EXCEPT ![1].isDefault = TRUE]
                         ELSE rest]

\* PUT /api/payment/methods/:id/default: every method's isDefault becomes
\* whether its id is the requested one
PutDefault(id) ==
    /\ paymentMethods' =
          [paymentMethods EXCEPT !.list =
              [i \in 1..Len(paymentMethods.list) |->
                  [id |-> paymentMethods.list[i].id,
                   isDefault |-> paymentMethods.list[i].id = id]]]
    /\ last' = Req("setDefault", 200)
    /\ UNCHANGED <<products, cartVars, orderVars, faults, inflight>>

\* the payment methods of one customer
NextPayment ==
    \/ \E isDefault \in BOOLEAN : PostMethod(isDefault)
    \/ \E id \in MethodIds : DeleteMethod(id)
    \/ \E id \in MethodIds : PutDefault(id)

----------------------------------------------------------------------------
Init ==
    /\ products = InitProducts
    /\ cart = NoCart
    /\ doc = NoDoc
    /\ last = NoLast
    /\ orders = <<>>
    /\ nextOrderId = 1
    /\ today = 1
    /\ faults = NoFaults
    /\ inflight = [r \in Requests |-> Idle]
    /\ paymentMethods = NoMethods

\* Cart lines: every product and variant, stock edits, no coupons
NextCartItems ==
    \/ GetCart
    \/ \E a \in AddInputs, q \in Quantities :
          PostCartItems(a[1], q, a[2], a[3])
    \/ \E id \in ItemIds, q \in Quantities : PutCartItem(id, q)
    \/ \E id \in ItemIds : DeleteCartItem(id)
    \/ DeleteCart
    \/ \E pid \in EditableProducts, s \in StockValues :
          AdminUpdateProduct(pid, s)

\* Cart pricing: plain lines of both products, the coupons
NextCart ==
    \/ GetCart
    \/ \E a \in PlainInputs, q \in Quantities :
          PostCartItems(a[1], q, a[2], a[3])
    \/ \E id \in ItemIds, q \in Quantities : PutCartItem(id, q)
    \/ \E id \in ItemIds : DeleteCartItem(id)
    \/ DeleteCart
    \/ \E code \in CouponCodes : PostCoupon(code)
    \/ DeleteCoupon

OrderIds == 1..(MaxOrders + 1)
CreateIds == 1..(MaxCreates + 1)

\* Order lifecycle: status changes, cancellation, refunds
NextOrder ==
    \/ \E u \in {"u1", Guest}, items \in ItemLists :
          nextOrderId <= MaxOrders /\ PostOrder(u, items, NoNumber)
    \/ \E id \in OrderIds, caller \in {Admin, "u1"},
          status \in Statuses \cup {"bogus"} :
          PutStatus(id, caller, status, "")
    \/ \E id \in OrderIds, caller \in {"u1", "u2"} : PutCancel(id, caller)
    \/ \E id \in OrderIds, caller \in {"u1", "u2"}, reason \in Reasons,
          amount \in Amounts : PostRefund(id, caller, reason, amount)
    \/ \E id \in OrderIds, body \in AdminBodies : AdminUpdateOrder(id, body)
    \/ \E id \in OrderIds, status \in {"processing", "delivered", "bogus"} :
          AdminPutStatus(id, status, "")

\* Order numbering: creations, deletions, the passing of days
NextOrderNumber ==
    \/ \E u \in {"u1", Guest}, number \in ClientNumbers :
          nextOrderId <= MaxCreates
              /\ PostOrder(u, <<[product |-> "p1", color |-> "red",
                                 size |-> "9", quantity |-> 1]>>, number)
    \/ \E id \in CreateIds, caller \in {"u1", "u2"} : DeleteOrder(id, caller)
    \/ NextDay

Prices == {20000, 49990}

\* Checkout: a customer's cart, price edits, orders placed with a body
NextCheckout ==
    \/ \E a \in PlainInputs, q \in Quantities :
          PostCartItems(a[1], q, a[2], a[3])
    \/ DeleteCart
    \/ \E price \in Prices : AdminSetPrice("p1", price)
    \/ \E u \in {"u1", Guest}, body \in Bodies :
          nextOrderId <= MaxOrders /\ PostOrderBody(u, body)

\* Cart requests that are refused: missing and inactive products, coupon
\* codes, item ids
NextCartErrors ==
    \/ \E a \in PlainInputs \cup {<<MissingProduct, NoColor, NoSize>>},
          q \in Quantities : PostCartItems(a[1], q, a[2], a[3])
    \/ \E id \in ItemIds, q \in Quantities : PutCartItem(id, q)
    \/ \E code \in {"SAVE10", "BOGUS"} \cup ObjectPrototypeKeys :
          PostCoupon(code)
    \/ \E active \in BOOLEAN : AdminSetActive("p2", active)

\* Orders and their deletion by customers
NextOrderDelete ==
    \/ \E u \in {"u1", Guest}, items \in ItemLists :
          nextOrderId <= MaxOrders /\ PostOrder(u, items, NoNumber)
    \/ \E id \in OrderIds, status \in Statuses :
          PutStatus(id, Admin, status, "")
    \/ \E id \in OrderIds, caller \in {"u1", "u2"} : PutCancel(id, caller)
    \/ \E id \in OrderIds, caller \in {"u1", "u2"}, reason \in Reasons,
          amount \in Amounts : PostRefund(id, caller, reason, amount)
    \/ \E id \in OrderIds, caller \in {"u1", "u2"} : DeleteOrder(id, caller)

\* failed cancellations raise the stock without end: stop at MaxStock
MaxStock == 5
StockBelowMax ==
    \A pid \in DOMAIN products :
       /\ products[pid].stock <= 12 + MaxStock
       /\ \A v \in DOMAIN products[pid].variants :
             products[pid].variants[v] <= MaxStock

\* Orders while the mail transport or a product save fails
NextFaults ==
    \/ \E items \in ItemLists :
          nextOrderId <= MaxOrders /\ PostOrder("u1", items, NoNumber)
    \/ \E id \in OrderIds, status \in {"processing", "shipped", "delivered"} :
          PutStatus(id, Admin, status, "")
    \/ \E id \in OrderIds : StockBelowMax /\ PutCancel(id, "u1")
    \/ \E f \in Faults : SetFaults(f)

\* Two order creations under way at once
NextConcurrentCreate ==
    \/ \E r \in Requests, u \in {"u1", Guest} :
          nextOrderId <= MaxCreates
              /\ CountOrders(r, u, <<[product |-> "p1", color |-> "red",
                                      size |-> "9", quantity |-> 1]>>)
    \/ \E r \in Requests : InsertOrder(r)
    \/ NextDay

\* Two additions to the cart under way at once
NextConcurrentCart ==
    \/ \E r \in Requests, a \in PlainInputs :
          FindCart(r, a[1], 1, a[2], a[3])
    \/ \E r \in Requests : SaveAddedItem(r)

\* Two cancellations under way at once, and the admin's status changes
NextConcurrentCancel ==
    \/ \E items \in ItemLists :
          nextOrderId <= MaxOrders /\ PostOrder("u1", items, NoNumber)
    \/ \E r \in Requests, id \in OrderIds : FindOrderToCancel(r, id, "u1")
    \/ \E r \in Requests : RestoreAndSave(r)
    \/ \E id \in OrderIds, status \in {"pending", "shipped"} :
          PutStatus(id, Admin, status, "")

Next ==
    \/ NextConcurrentCreate \/ NextConcurrentCart \/ NextConcurrentCancel
    \/ NextCartItems \/ NextCart \/ NextOrder \/ NextOrderNumber
    \/ NextCheckout \/ NextCartErrors \/ NextPayment
    \/ NextOrderDelete \/ NextFaults

Spec == Init /\ [][Next]_vars

SpecOrder == Init /\ [][NextOrder]_vars

SpecOrderNumber == Init /\ [][NextOrderNumber]_vars

SpecCartItems == Init /\ [][NextCartItems]_vars

SpecCart == Init /\ [][NextCart]_vars

SpecCheckout == Init /\ [][NextCheckout]_vars

SpecCartErrors == Init /\ [][NextCartErrors]_vars

SpecPayment == Init /\ [][NextPayment]_vars

SpecOrderDelete == Init /\ [][NextOrderDelete]_vars

SpecFaults == Init /\ [][NextFaults]_vars

SpecConcurrentCreate == Init /\ [][NextConcurrentCreate]_vars

SpecConcurrentCart == Init /\ [][NextConcurrentCart]_vars

SpecConcurrentCancel == Init /\ [][NextConcurrentCancel]_vars

----------------------------------------------------------------------------
(* Claims about the cart *)

RECURSIVE SubtotalOf(_)
SubtotalOf(items) ==
    IF items = <<>> THEN 0
    ELSE Head(items).price * Head(items).quantity + SubtotalOf(Tail(items))

CartMutations ==
    {"addItem", "updateItemQuantity", "removeItem", "applyCoupon",
     "removeCoupon", "clear"}

\* C1: after any sequence of cart mutations, each followed by save, the
\* stored cart has subtotal = sum of price * quantity over its items and
\* total = subtotal + tax + shipping - discount.
C1_StoredTotals ==
    cart # NoCart =>
        /\ cart.subtotal = SubtotalOf(cart.items)
        /\ cart.total = cart.subtotal + cart.tax + cart.shipping - cart.discount

C1_Witness ==
    /\ cart # NoCart
    /\ last.op \in CartMutations /\ last.code = 200
    /\ Len(cart.items) = 2
    /\ cart.coupon # NoCoupon
    /\ cart.discount > 0 /\ cart.tax > 0
    /\ cart.total = 55000 + 4675 + 0 - 5500

\* C2: in every stored cart state the discount is at most the subtotal.
C2_DiscountAtMostSubtotal ==
    cart # NoCart => cart.discount <= cart.subtotal

\* the amount the current coupon stands for
CouponAmount(c) ==
    IF c.coupon = NoCoupon THEN 0
    ELSE IF c.coupon.type = "percentage"
         THEN (c.subtotal * c.coupon.discount) \div 100
         ELSE c.coupon.discount

\* C3: the stored discount is a function of the current items and coupon:
\* min(subtotal, amount of the current coupon), and 0 without a coupon.
C3_DiscountFromCoupon ==
    cart # NoCart =>
        /\ cart.discount = Min(cart.subtotal, CouponAmount(cart))
        /\ (cart.coupon = NoCoupon => cart.discount = 0)

\* C4: every line of a stored cart has 1 <= quantity <= maxQuantity.
C4_QuantityWithinMax ==
    cart # NoCart =>
        \A i \in 1..Len(cart.items) :
            /\ 1 <= cart.items[i].quantity
            /\ cart.items[i].quantity <= cart.items[i].maxQuantity

\* what addItem has to make of the cart `pre` for one request
AddItemPost(pre, d, pid, quantity, color, size) ==
    LET hits == {i \in 1..Len(pre.items) :
                    SameLine(pre.items[i], pid, color, size)}
    IN IF hits # {}
       THEN /\ Len(d.items) = Len(pre.items)
            /\ Cardinality({i \in 1..Len(d.items) :
                    SameLine(d.items[i], pid, color, size)}) = 1
            /\ \A i \in 1..Len(pre.items) :
                   IF i \in hits
                   THEN d.items[i] =
                          [pre.items[i] EXCEPT !.quantity =
                              Min(pre.items[i].quantity + quantity,
                                  pre.items[i].maxQuantity)]
                   ELSE d.items[i] = pre.items[i]
       ELSE /\ Len(d.items) = Len(pre.items) + 1
            /\ SubSeq(d.items, 1, Len(pre.items)) = pre.items
            /\ LET new == d.items[Len(d.items)]
               IN /\ SameLine(new, pid, color, size)
                  /\ new.quantity = quantity
                  /\ new.price = products[pid].price
                  /\ new.maxQuantity = Min(products[pid].stock, MaxPerItem)

\* C5: addItem on a product, color and size the cart already holds leaves
\* one line for them with quantity min(old + added, maxQuantity), so two
\* calls give min(q1 + q2, maxQuantity); on any other product, color or
\* size it appends a line and leaves the existing lines as they are.
C5_AddItemMerges ==
    [][\A a \in AddInputs, q \in Quantities :
          (/\ last'.op = "addItem" /\ doc' # NoDoc
           /\ PostCartItems(a[1], q, a[2], a[3]))
              => AddItemPost(FindOrCreateCart, doc', a[1], q, a[2], a[3])]_vars

C5_Witness ==
    /\ last.op = "addItem" /\ last.merged /\ last.code = 200
    /\ Len(cart.items) = 2
    /\ \E i \in 1..2 :
          /\ cart.items[i].quantity = cart.items[i].maxQuantity
          /\ cart.items[i].maxQuantity = MaxPerItem

----------------------------------------------------------------------------
(* Claims about orders *)

Customers == {"u1", "u2"}

\* C6: cancel by the owner succeeds exactly when the status is pending,
\* processing or shipped; from delivered, cancelled or refunded it is
\* answered 400 and the order (status, history) and all stock stay as
\* they were.
C6_CancelGate ==
    [][\A id \in OrderIds, caller \in Customers :
          (/\ last'.op = "cancel"
           /\ id \in DOMAIN orders
           /\ orders[id].user = caller
           /\ PutCancel(id, caller))
          => IF orders[id].status \in {"pending", "processing", "shipped"}
             THEN /\ last'.code = 200
                  /\ orders'[id].status = "cancelled"
             ELSE /\ orders[id].status \in {"delivered", "cancelled", "refunded"}
                  /\ last'.code = 400
                  /\ orders' = orders
                  /\ products' = products]_vars

C6_Witness ==
    /\ last.op = "cancel" /\ last.code = 400
    /\ \E id \in DOMAIN orders :
          /\ orders[id].user = "u1"
          /\ orders[id].status = "delivered"

\* the quantity the lines of an order hold of one variant of a product
RECURSIVE VariantQuantity(_, _, _)
VariantQuantity(items, pid, v) ==
    IF items = <<>> THEN 0
    ELSE (IF /\ Head(items).product = pid
             /\ Head(items).color # NoColor /\ Head(items).size # NoSize
             /\ <<Head(items).color, Head(items).size>> = v
          THEN Head(items).quantity ELSE 0)
         + VariantQuantity(Tail(items), pid, v)

\* the quantity the lines without a color and size hold of a product
RECURSIVE PlainQuantity(_, _)
PlainQuantity(items, pid) ==
    IF items = <<>> THEN 0
    ELSE (IF /\ Head(items).product = pid
             /\ (Head(items).color = NoColor \/ Head(items).size = NoSize)
          THEN Head(items).quantity ELSE 0)
         + PlainQuantity(Tail(items), pid)

\* C7: a successful cancel adds each line's quantity to the stock of its
\* product: every line's product is there, with the variant of the line's
\* color and size when the line has both, and that variant's stock, or
\* the top-level stock otherwise, grows by exactly the quantities of the
\* lines that name it.
C7_CancelRestoresStock ==
    [][\A id \in OrderIds, caller \in Customers :
          (/\ last'.op = "cancel" /\ last'.code = 200
           /\ PutCancel(id, caller))
          => /\ \A i \in 1..Len(orders[id].items) :
                   LET item == orders[id].items[i] IN
                   /\ item.product \in DOMAIN products
                   /\ (item.color # NoColor /\ item.size # NoSize)
                         => <<item.color, item.size>>
                                \in DOMAIN products[item.product].variants
             /\ \A pid \in DOMAIN products :
                   /\ products'[pid].stock =
                          products[pid].stock
                              + PlainQuantity(orders[id].items, pid)
                   /\ \A v \in DOMAIN products[pid].variants :
                          products'[pid].variants[v] =
                              products[pid].variants[v]
                                  + VariantQuantity(orders[id].items, pid, v)]_vars

\* C8: requestRefund is answered 400 on a pending order; on a shipped or
\* delivered order it succeeds the first time, and a second request while
\* the first is still pending is answered 400 and changes nothing.
C8_RefundOnce ==
    [][\A id \in OrderIds, caller \in Customers, reason \in Reasons,
          amount \in Amounts :
          (/\ last'.op = "requestRefund"
           /\ trim(reason) # <<>>
           /\ id \in DOMAIN orders
           /\ orders[id].user = caller
           /\ PostRefund(id, caller, reason, amount))
          => /\ orders[id].status = "pending" => last'.code = 400
             /\ (/\ orders[id].status \in {"shipped", "delivered"}
                 /\ orders[id].refundInfo = NoRefund)
                    => last'.code = 200
             /\ (/\ orders[id].status \in {"shipped", "delivered"}
                 /\ orders[id].refundInfo.reason # NoReason
                 /\ orders[id].refundInfo.status = "pending")
                    => (last'.code = 400 /\ orders' = orders)]_vars

\* a refund request: where it may change the order, and what it writes
RefundStep(id, caller, reason, amount, storedReason, storedAmount) ==
    PostRefund(id, caller, reason, amount)
    => /\ orders' # orders =>
            /\ id \in DOMAIN orders
            /\ orders[id].status \in {"shipped", "delivered"}
            /\ orders[id].refundInfo.status \notin RefundDecisions
            /\ last'.code = 200
       /\ last'.code = 200 =>
            /\ orders' = [orders EXCEPT ![id].refundInfo =
                   [status |-> "pending", reason |-> storedReason,
                    amount |-> storedAmount]]
            /\ orders'[id].status = orders[id].status

\* C9 as claimed: on success the reason is the supplied reason and the
\* amount the supplied amount, or the order's totalPrice when none is
\* supplied.
C9_RefundAsClaimed ==
    [][(last'.op = "requestRefund" /\ (orders' # orders \/ last'.code = 200))
       => \A id \in OrderIds, caller \in Customers, reason \in Reasons,
          amount \in Amounts :
          RefundStep(id, caller, reason, amount, reason,
                     IF amount.given THEN amount.value
                     ELSE orders[id].totalPrice)]_vars

\* the supplied reason without its leading and trailing blanks
RECURSIVE Unblanked(_)
Unblanked(str) ==
    IF str = <<>> THEN str
    ELSE IF Head(str) = " " THEN Unblanked(Tail(str))
    ELSE IF str[Len(str)] = " " THEN Unblanked(SubSeq(str, 1, Len(str) - 1))
    ELSE str

\* C9, amended: requestRefund changes refundInfo only if the order is
\* shipped or delivered and the refundInfo status is not approved,
\* rejected or completed; on success refundInfo.status = pending, the
\* reason is the supplied reason with leading and trailing blanks trimmed,
\* and the amount is the supplied amount when one is supplied and is not
\* 0, otherwise the order's totalPrice; the order status is unchanged.
C9_RefundAmended ==
    [][(last'.op = "requestRefund" /\ (orders' # orders \/ last'.code = 200))
       => \A id \in OrderIds, caller \in Customers, reason \in Reasons,
          amount \in Amounts :
          RefundStep(id, caller, reason, amount, Unblanked(reason),
                     IF amount.given /\ amount.value # 0 THEN amount.value
                     ELSE orders[id].totalPrice)]_vars

C9_Witness ==
    /\ last.op = "requestRefund" /\ last.code = 200
    /\ \E id \in DOMAIN orders :
          /\ orders[id].status = "delivered"
          /\ orders[id].refundInfo.status = "pending"
          /\ orders[id].refundInfo.reason = <<"x">>
          /\ orders[id].refundInfo.amount = orders[id].totalPrice

\* YYMMDD of the model's days, and a count as three digits
DatePrefix == << <<2, 4, 0, 6, 1, 5>>, <<2, 4, 0, 6, 1, 6>> >>
ThreeDigits(n) == <<n \div 100, (n \div 10) % 10, n % 10>>

C11_HistoryOnePerChange ==
    [][/\ (last'.op = "createOrder" /\ last'.code = 201)
          => /\ Len(orders'[nextOrderId].statusHistory) = 1
             /\ orders'[nextOrderId].statusHistory[1].status =
                    orders'[nextOrderId].status
       /\ (last'.op \in {"updateStatus", "cancel", "adminStatus"}
              /\ last'.code = 200)
          => \A id \in DOMAIN orders :
                orders'[id].status # orders[id].status
                => LET old == orders[id].statusHistory
                       new == orders'[id].statusHistory
                   IN /\ Len(new) = Len(old) + 1
                      /\ SubSeq(new, 1, Len(old)) = old
                      /\ new[Len(new)].status = orders'[id].status]_vars

\* C12: a cancelled or refunded order never changes status again, and a
\* delivered order changes status only to refunded.
C12_FinalStatuses ==
    [][\A id \in DOMAIN orders :
          /\ orders[id].status \in {"cancelled", "refunded"}
                => orders'[id].status = orders[id].status
          /\ orders[id].status = "delivered"
                => orders'[id].status \in {"delivered", "refunded"}]_vars

\* C13: a successful order creation reserves stock: every variant's stock
\* and every top-level stock goes down by the quantities of the order's
\* lines that name it, floored at 0.
C13_CreateReservesStock ==
    [][(last'.op = "createOrder" /\ last'.code = 201)
          => LET items == orders'[nextOrderId].items IN
             \A pid \in DOMAIN products :
                /\ products'[pid].stock =
                       Max(0, products[pid].stock - PlainQuantity(items, pid))
                /\ \A v \in DOMAIN products[pid].variants :
                       products'[pid].variants[v] =
                           Max(0, products[pid].variants[v]
                                      - VariantQuantity(items, pid, v))]_vars

\* C14: after an authenticated customer's order is created, that
\* customer's cart has no items and all its totals are 0.
C14_CreateClearsCart ==
    [][(/\ last'.op = "createOrder" /\ last'.code = 201
        /\ orders'[nextOrderId].user = "u1"
        /\ cart # NoCart)
          => /\ cart'.items = <<>>
             /\ cart'.subtotal = 0 /\ cart'.tax = 0 /\ cart'.shipping = 0
             /\ cart'.discount = 0 /\ cart'.total = 0]_vars

\* two request bodies that ask for the same products, variants and
\* quantities under the same order number
SameRequest(b1, b2) ==
    /\ b1.orderNumber = b2.orderNumber
    /\ Len(b1.items) = Len(b2.items)
    /\ \A i \in 1..Len(b1.items) :
          /\ b1.items[i].product = b2.items[i].product
          /\ b1.items[i].color = b2.items[i].color
          /\ b1.items[i].size = b2.items[i].size
          /\ b1.items[i].quantity = b2.items[i].quantity

RECURSIVE LivePriceTimesQuantity(_)
LivePriceTimesQuantity(items) ==
    IF items = <<>> THEN 0
    ELSE products[Head(items).product].price * Head(items).quantity
         + LivePriceTimesQuantity(Tail(items))

\* C15: a created order's item prices are the products' live prices, its
\* itemsPrice the sum of live price times quantity, its tax 8.5% of that,
\* its shipping 0 from 50.00 on and 5.99 below, its total their sum; and
\* a request that differs only in client-supplied prices and totals
\* creates the very same order.
C15_OrderPricesFromProducts ==
    [][(last'.op = "createOrder" /\ last'.code = 201)
       => \A u \in {"u1", Guest}, b1 \in Bodies :
             PostOrderBody(u, b1)
             => LET o == orders'[nextOrderId] IN
                /\ \A i \in 1..Len(b1.items) :
                      /\ o.items[i].price =
                             products[b1.items[i].product].price
                      /\ o.items[i].quantity = b1.items[i].quantity
                /\ o.itemsPrice = LivePriceTimesQuantity(b1.items)
                /\ o.taxPrice = (o.itemsPrice * 85) \div 1000
                /\ o.shippingPrice = IF o.itemsPrice >= 50000 THEN 0 ELSE 5990
                /\ o.totalPrice = o.itemsPrice + o.taxPrice + o.shippingPrice
                /\ \A b2 \in Bodies :
                      SameRequest(b1, b2) => PostOrderBody(u, b2)]_vars

C15_Witness ==
    /\ last.op = "createOrder" /\ last.code = 201
    /\ products["p1"].price = 49990
    /\ \E id \in DOMAIN orders :
          /\ Len(orders[id].items) = 2
          /\ orders[id].items[1].price = 49990
          /\ orders[id].items[2].price = 15000
          /\ orders[id].itemsPrice = 79990

\* C16: after clear and its save the stored cart has no items, no coupon
\* and subtotal, tax, shipping, discount and total all 0.
C16_ClearedCartIsZero ==
    [][(last'.op = "clear" /\ last'.code = 200)
          => /\ cart'.items = <<>>
             /\ cart'.coupon = NoCoupon
             /\ cart'.subtotal = 0 /\ cart'.tax = 0 /\ cart'.shipping = 0
             /\ cart'.discount = 0 /\ cart'.total = 0]_vars

ScenarioCart ==
    /\ cart # NoCart
    /\ Len(cart.items) = 2
    /\ \E i, j \in 1..2 :
          /\ cart.items[i].price = 20000 /\ cart.items[i].quantity = 2
          /\ cart.items[j].price = 15000 /\ cart.items[j].quantity = 1
    /\ cart.coupon.code = "SAVE10"

\* C18: the scenario cart has subtotal 55.00, tax 4.675, shipping 0,
\* discount 5.50 and total 54.175.
C18_ScenarioTotals ==
    ScenarioCart
    => /\ cart.subtotal = 55000 /\ cart.tax = 4675 /\ cart.shipping = 0
       /\ cart.discount = 5500 /\ cart.total = 54175

C18_Witness == ScenarioCart /\ last.op = "applyCoupon" /\ last.code = 200

\* C19: updateItemQuantity with an item id that no line of the cart has
\* is answered 404 and leaves the cart as it was.
C19_UnknownItemNotFound ==
    [][\A id \in ItemIds, q \in 1..MaxQty :
          (/\ last'.op = "updateItemQuantity"
           /\ cart # NoCart
           /\ \A i \in 1..Len(cart.items) : cart.items[i].id # id
           /\ PutCartItem(id, q))
          => (last'.code = 404 /\ cart' = cart)]_vars

\* C20: a refused cart request leaves the stored cart as it was: addItem
\* of a missing product is answered 404, addItem of an inactive product
\* 400, applyCoupon with a code other than SAVE10, SAVE20 and FREESHIP 400.
C20_RefusedLeavesCart ==
    [][/\ \A a \in PlainInputs \cup {<<MissingProduct, NoColor, NoSize>>},
             q \in 1..MaxQty :
             PostCartItems(a[1], q, a[2], a[3])
             => /\ a[1] \notin DOMAIN products
                      => (last'.code = 404 /\ cart' = cart)
                /\ (a[1] \in DOMAIN products /\ ~products[a[1]].isActive)
                      => (last'.code = 400 /\ cart' = cart)
       /\ \A code \in {"BOGUS"} \cup ObjectPrototypeKeys :
             (cart # NoCart /\ PostCoupon(code))
             => (last'.code = 400 /\ cart' = cart)]_vars

\* C30: a customer with at least one stored payment method has exactly
\* one method with isDefault = true.
C30_OneDefaultMethod ==
    Len(paymentMethods.list) > 0
    => Cardinality({i \in 1..Len(paymentMethods.list) :
                       paymentMethods.list[i].isDefault}) = 1

\* C29: a stored order that is shipped has shippedAt and estimatedDelivery
\* set, estimatedDelivery three days after shippedAt; one that is
\* delivered has deliveredAt and actualDeliveryDate set.
C29_StatusDatesSet ==
    \A id \in DOMAIN orders :
       /\ orders[id].status = "shipped"
             => /\ orders[id].shippingInfo.shippedAt # NoDate
                /\ orders[id].shippingInfo.estimatedDelivery =
                       orders[id].shippingInfo.shippedAt + 3
       /\ orders[id].status = "delivered"
             => /\ orders[id].shippingInfo.deliveredAt # NoDate
                /\ orders[id].actualDeliveryDate # NoDate

\* C21: a status update that asks for a status outside the six names, or
\* that comes from a caller who is not an admin, is refused and leaves
\* the stored orders (status, history, dates) as they were.
C21_RefusedStatusUpdate ==
    [][/\ last'.op = "updateStatus"
          => \A id \in OrderIds, caller \in {Admin, "u1"},
                status \in Statuses \cup {"bogus"} :
                (/\ status \notin Statuses \/ caller # Admin
                 /\ PutStatus(id, caller, status, ""))
                => (last'.code \in {400, 403, 404} /\ orders' = orders)
       /\ last'.op = "adminStatus"
          => \A id \in OrderIds, status \in Statuses \cup {"bogus"} :
                (status \notin Statuses /\ AdminPutStatus(id, status, ""))
                => (last'.code # 200 /\ orders' = orders)]_vars

C21_Witness ==
    /\ last.op = "updateStatus" /\ last.code = 403
    /\ \E id \in DOMAIN orders :
          orders[id].status = "processing" /\ orders[id].user = "u1"

\* C22: an order leaves the store only through a delete request of its
\* owner while it is pending, processing or shipped; a delete by anyone
\* else or in another status fails and the order stays; a delete that
\* succeeds leaves every product's stock as it was.
C22_DeleteOnlyByOwner ==
    [][/\ \A id \in DOMAIN orders :
             id \notin DOMAIN orders'
             => /\ last'.op = "deleteOrder" /\ last'.code = 200
                /\ orders[id].status \in {"pending", "processing", "shipped"}
                /\ orders[id].user # Guest
                /\ DeleteOrder(id, orders[id].user)
                /\ products' = products
       /\ last'.op = "deleteOrder"
          => \A id \in DOMAIN orders, caller \in {"u1", "u2"} :
                (/\ \/ caller # orders[id].user
                    \/ orders[id].status
                          \notin {"pending", "processing", "shipped"}
                 /\ DeleteOrder(id, caller))
                => (last'.code # 200 /\ orders' = orders)]_vars

C22_Witness ==
    /\ last.op = "deleteOrder" /\ last.code = 200
    /\ orders = <<>> /\ nextOrderId > 1

\* C24: cancel, requestRefund and delete by a caller who is not the
\* order's owner, guest orders included, change neither the orders nor any
\* stock, and answer with a failure.
C24_NonOwnerChangesNothing ==
    [][last'.op \in {"cancel", "requestRefund", "deleteOrder"}
       => \A id \in DOMAIN orders, caller \in {"u1", "u2"} :
             (/\ caller # orders[id].user
              /\ \/ PutCancel(id, caller)
                 \/ DeleteOrder(id, caller)
                 \/ \E reason \in Reasons, amount \in Amounts :
                       PostRefund(id, caller, reason, amount))
             => /\ last'.code >= 400
                /\ orders' = orders
                /\ products' = products]_vars

C24_Witness ==
    /\ last.op = "cancel" /\ last.code = 500
    /\ \E id \in DOMAIN orders :
          orders[id].user = Guest /\ orders[id].status = "processing"

C25_FailedCancelKeepsStock ==
    [][last'.op = "cancel"
       => \A id \in DOMAIN orders :
             (/\ orders[id].user = "u1"
              /\ canBeCancelled(orders[id])
              /\ PutCancel(id, "u1"))
             => LET items == orders[id].items
                    k == faults.productSave
                IN IF k \in 1..Len(items)
                   THEN /\ last'.code = 500
                        /\ orders' = orders
                        /\ canBeCancelled(orders'[id])
                        /\ products' =
                              restoreStock(products, SubSeq(items, 1, k - 1))
                   ELSE /\ orders'[id].status = "cancelled"
                        /\ products' = restoreStock(products, items)]_vars

\* the red/9 variant of p1 holds its first stock plus twice the quantity
\* of the order's first line: released by the cancel that failed on the
\* second line, and again by the cancel that went through
C25_Witness ==
    /\ last.op = "cancel" /\ last.code = 200
    /\ \E id \in DOMAIN orders :
          /\ orders[id].status = "cancelled"
          /\ Len(orders[id].items) = 2
          /\ orders[id].items[1].product = "p1"
          /\ products["p1"].variants[<<"red", "9">>] =
                InitProducts["p1"].variants[<<"red", "9">>]
                    + 2 * orders[id].items[1].quantity
          /\ products["p2"].variants[<<"red", "9">>] =
                InitProducts["p2"].variants[<<"red", "9">>]
                    + orders[id].items[2].quantity

C27_SaveFromOwnRead ==
    [][\A r \in Requests :
          (/\ inflight[r].op = "addItem"
           /\ inflight'[r].op = "answered"
           /\ inflight'[r].code = 200
           /\ findIndex(inflight[r].doc.items, inflight[r].product,
                        inflight[r].color, inflight[r].size) > 0)
          => LET in == inflight[r]
                 i == findIndex(in.doc.items, in.product, in.color, in.size)
             IN cart'.items[i].quantity =
                    Min(in.doc.items[i].quantity + in.quantity,
                        in.doc.items[i].maxQuantity)]_vars

\* both requests were answered 200 for the line they read with the same
\* quantity, the three quantities together fit under the line's maximum,
\* and the stored line holds the read quantity plus one request's only
C27_Witness ==
    /\ cart # NoCart
    /\ \A r \in Requests :
          /\ inflight[r].op = "answered"
          /\ inflight[r].request = "addItem" /\ inflight[r].code = 200
          /\ inflight[r].product = "p2"
          /\ inflight[r].read = 1
    /\ \E i \in 1..Len(cart.items) :
          /\ cart.items[i].product = "p2"
          /\ 1 + inflight["r1"].quantity + inflight["r2"].quantity
                <= cart.items[i].maxQuantity
          /\ cart.items[i].quantity = 1 + inflight["r2"].quantity
          /\ cart.subtotal = cart.items[i].price * cart.items[i].quantity
    /\ Len(cart.items) = 1

\* the quantity an order's lines hold of a product's variant
OrderedOf(o, pid, v) ==
    SumSeq([i \in 1..Len(o.items) |->
               IF o.items[i].product = pid
                    /\ <<o.items[i].color, o.items[i].size>> = v
               THEN o.items[i].quantity ELSE 0])

\* C28: cancellation raises the stock of an order's lines at most once in
\* the order's life: no variant ever holds more than its first stock plus
\* the quantities the stored orders hold of it, whatever the interleaving
\* of cancel requests and the admin's status changes.
C28_StockReleasedOnce ==
    \A pid \in DOMAIN products :
       \A v \in DOMAIN products[pid].variants :
          products[pid].variants[v] <=
              InitProducts[pid].variants[v]
                  + SumSeq([id \in 1..Len(orders) |->
                               OrderedOf(orders[id], pid, v)])

====
